---- MODULE Spec2Model ----
(***************************************************************************)
(* image-dedup: the persistent hash cache (cache.py), the hasher           *)
(* (hasher.py) and the deduplication engine (dedup.py) as a state machine. *)
(*                                                                         *)
(* Time is counted in milliseconds, so the 0.001 s tolerance of            *)
(* HashCache.get is 1.  A Python None digest is NoDigest; an optional      *)
(* value (CachedImage | None) is a sequence of length 0 or 1.              *)
(***************************************************************************)
EXTENDS Integers, Sequences, FiniteSets, TLC

\* ---- bounds -------------------------------------------------------------
NumPaths == 3
NumKeys == 2
NumContents == 3
NumImages == 4
MaxCandidates == 4
MaxOps == 3
MaxThreshold == 3
MaxRuns == 2

\* ---- program constants --------------------------------------------------
Tolerance == 1
\* "similarity_threshold: Maximum Hamming distance for similar images (0-64)"
MaxValidThreshold == 64

Paths == 1..NumPaths
Keys == 1..NumKeys
Contents == 1..NumContents
Images == 1..NumImages
\* modification times: equal, within the tolerance and beyond it
Mtimes == 0..(Tolerance + 1)
Thresholds == 1..MaxThreshold
NoDigest == -1

Abs(x) == IF x < 0 THEN -x ELSE x

\* ---- files and the hasher -------------------------------------------------
\* The byte contents a file can have: whether open() can read the bytes,
\* whether PIL can decode them, and the bits of the two perceptual hashes of
\* the decoded picture.
ImageTable ==
  << [readable |-> TRUE,  decodable |-> TRUE,  phash |-> <<0,0,0,0>>, dhash |-> <<0,0,0,0>>],
     [readable |-> TRUE,  decodable |-> TRUE,  phash |-> <<0,0,0,1>>, dhash |-> <<0,0,1,1>>],
     [readable |-> TRUE,  decodable |-> TRUE,  phash |-> <<1,1,0,1>>, dhash |-> <<0,1,1,1>>],
     [readable |-> TRUE,  decodable |-> FALSE, phash |-> <<0,0,0,0>>, dhash |-> <<0,0,0,0>>],
     [readable |-> FALSE, decodable |-> FALSE, phash |-> <<0,0,0,0>>, dhash |-> <<0,0,0,0>>],
     [readable |-> TRUE,  decodable |-> TRUE,  phash |-> <<0,0,1,1>>, dhash |-> <<0,0,1,1>>],
     [readable |-> TRUE,  decodable |-> TRUE,  phash |-> <<1,1,1,1>>, dhash |-> <<1,1,1,1>>] >>

\* os.stat().st_size of a file holding content c
st_size(c) == (c + 1) \div 2

\* hasher.compute_sha256: distinct bytes, distinct digests
compute_sha256(c) == 100 + c

compute_phash(c) == ImageTable[c].phash

compute_dhash(c) == ImageTable[c].dhash

RECURSIVE hex_value(_)
hex_value(bits) ==
  IF bits = <<>> THEN 0
  ELSE 2 * hex_value(SubSeq(bits, 1, Len(bits) - 1)) + bits[Len(bits)]

\* str(phash) if phash is not None else None
hash_str(h) == IF h = <<>> THEN NoDigest ELSE hex_value(h[1])

\* the number of bits of a perceptual hash (hash_size squared)
HashBits == Len(ImageTable[1].phash)

\* imagehash.hex_to_hash: the bits of a hex string, most significant first
RECURSIVE hex_to_hash(_, _)
hex_to_hash(n, len) ==
  IF len = 0 THEN <<>> ELSE Append(hex_to_hash(n \div 2, len - 1), n % 2)

\* cache.phash_from_str
phash_from_str(s) == hex_to_hash(s, HashBits)

\* ImageHash.__sub__: the Hamming distance
RECURSIVE hash_distance(_, _)
hash_distance(h1, h2) ==
  IF h1 = <<>> THEN 0
  ELSE (IF Head(h1) # Head(h2) THEN 1 ELSE 0) + hash_distance(Tail(h1), Tail(h2))

NoFile == [exists |-> FALSE, content |-> 0, mtime |-> 0]
File(c, m) == [exists |-> TRUE, content |-> c, mtime |-> m]

\* ---- HashCache: the image_hashes table as a set of rows -------------------
\* mutant: the phash and dhash columns change places
CachedImage_swapped(p, size, mtime, sha256, phash, dhash) ==
  [path |-> p, size |-> size, mtime |-> mtime,
   sha256 |-> sha256, phash |-> dhash, dhash |-> phash]

CachedImage(p, size, mtime, sha256, phash, dhash) ==
  [path |-> p, size |-> size, mtime |-> mtime,
   sha256 |-> sha256, phash |-> phash, dhash |-> dhash]

\* SELECT ... FROM image_hashes WHERE path = ?
select_by_path(tbl, p) == {r \in tbl : r.path = p}

\* mutant: a plain INSERT into a table without the primary key
insert_plain(tbl, row) == tbl \cup {row}

\* INSERT OR REPLACE INTO image_hashes, path being the PRIMARY KEY
insert_or_replace(tbl, row) == {r \in tbl : r.path # row.path} \cup {row}

\* mutant: the WHERE clause is lost
delete_by_path_all(tbl, p) == {}

\* DELETE FROM image_hashes WHERE path = ?
delete_by_path(tbl, p) == {r \in tbl : r.path # p}

\* DELETE FROM image_hashes
delete_all(tbl) == {}

\* mutant: only the size is compared
is_changed_size_only(cached, current_size, current_mtime) ==
  cached.size # current_size

\* mutant: a difference of exactly the tolerance counts as a change
is_changed_strict(cached, current_size, current_mtime) ==
  \/ cached.size # current_size
  \/ Abs(cached.mtime - current_mtime) >= Tolerance

\* get: "Check if file has changed"
is_changed(cached, current_size, current_mtime) ==
  \/ cached.size # current_size
  \/ Abs(cached.mtime - current_mtime) > Tolerance

\* mutant: the commit is left out
commit_skipped(connView, diskView) == diskView

\* self._conn.commit(): the database file after the commit, given the
\* connection's view and the file before it
commit(connView, diskView) == connView

\* the arguments of a set call
SetArgs(size, mtime, sha256, phash, dhash) ==
  [size |-> size, mtime |-> mtime, sha256 |-> sha256, phash |-> phash, dhash |-> dhash]

\* the row a set call with these arguments writes
row_of(p, a) ==
  CachedImage(p, a.size, a.mtime, a.sha256, hash_str(a.phash), hash_str(a.dhash))

VARIABLES
  fs,            \* the files: path -> [exists, content, mtime]
  conn,          \* image_hashes as the open connection sees it
  disk,          \* image_hashes as committed to the cache file
  ret,           \* the last operation and what it returned
  rewritten,     \* history: paths written or removed since their last set
  last_set,      \* history: path -> arguments of the last set not undone since
  ops,           \* number of cache and file operations so far
  pc,            \* find_duplicates: where the call is
  args,          \* find_duplicates: its arguments
  images,        \* find_duplicates: the ImageInfo list
  idx,           \* find_duplicates: files hashed so far
  sha256_groups, \* find_duplicates: digest -> images, in insertion order
  phash_list,    \* find_duplicates: images with perceptual hashes
  result,        \* find_duplicates: the DeduplicationResult
  progress,      \* the calls made to progress_callback
  hasher_calls,  \* paths handed to the Hasher during this call
  run,           \* number of find_duplicates calls that returned
  prev,          \* the previous call: arguments, files and result
  tree,          \* the files as they were when this call began
  moves,         \* move_duplicates: whether it ran, dry_run, and what it did
  get_pc         \* HashCache.get of a concurrent caller: where that call is

cacheVars == <<conn, disk>>
histVars == <<rewritten, last_set>>
engineVars == <<pc, args, images, idx, sha256_groups, phash_list, result,
                progress, hasher_calls, run, prev, tree, moves>>
vars == <<fs, conn, disk, ret, rewritten, last_set, ops, pc, args, images, idx,
          sha256_groups, phash_list, result, progress, hasher_calls, run, prev, tree,
          moves, get_pc>>

NoRow == <<>>

\* one more cache or file operation; find_duplicates is not running
Tick == ops < MaxOps /\ ops' = ops + 1 /\ UNCHANGED <<engineVars, get_pc>>
\* removed: whether the operation took a stored row out of the table
Return(op, p, val, removed) == [op |-> op, path |-> p, val |-> val, removed |-> removed]

\* a get that evicts the row of a path it cannot stat
on_stat_error_evict(tbl, p) == {r \in tbl : r.path # p}

\* "except OSError: return None": get leaves before it touches the table
on_stat_error(tbl, p) == tbl

\* HashCache.get
Get(p) ==
  /\ Tick
  /\ UNCHANGED <<fs, rewritten>>
  /\ IF ~fs[p].exists
     THEN /\ ret' = Return("get", p, NoRow, FALSE)
          /\ conn' = on_stat_error(conn, p)
          /\ UNCHANGED <<disk, last_set>>
     ELSE LET current_size == st_size(fs[p].content)
              current_mtime == fs[p].mtime
              rows == select_by_path(conn, p)
          IN IF rows = {}
             THEN /\ ret' = Return("get", p, NoRow, FALSE)
                  /\ UNCHANGED <<conn, disk, last_set>>
             ELSE \E cached \in rows :
                    IF is_changed(cached, current_size, current_mtime)
                    THEN /\ conn' = delete_by_path(conn, p)
                         /\ disk' = commit(conn', disk)
                         /\ last_set' = [last_set EXCEPT ![p] = <<>>]
                         /\ ret' = Return("get", p, NoRow, TRUE)
                    ELSE /\ ret' = Return("get", p, <<cached>>, FALSE)
                         /\ UNCHANGED <<conn, disk, last_set>>

\* HashCache.get of a caller that other callers of the same cache file run
\* beside, up to the point where it returns or is about to call self.delete:
\* stat, SELECT and the comparison
GetRead(p) ==
  /\ get_pc.path = 0
  /\ UNCHANGED <<fs, rewritten, ops, engineVars>>
  /\ IF ~fs[p].exists
     THEN /\ ret' = Return("get", p, NoRow, FALSE)
          /\ conn' = on_stat_error(conn, p)
          /\ get_pc' = [get_pc EXCEPT !.stat_failed = @ \cup {p}]
          /\ UNCHANGED <<disk, last_set>>
     ELSE LET current_size == st_size(fs[p].content)
              current_mtime == fs[p].mtime
              rows == select_by_path(conn, p)
          IN IF rows = {}
             THEN /\ ret' = Return("get", p, NoRow, FALSE)
                  /\ UNCHANGED <<conn, disk, last_set, get_pc>>
             ELSE \E cached \in rows :
                    IF is_changed(cached, current_size, current_mtime)
                    THEN /\ get_pc' = [get_pc EXCEPT !.path = p, !.cached = <<cached>>]
                         /\ UNCHANGED <<conn, disk, last_set, ret>>
                    ELSE /\ ret' = Return("get", p, <<cached>>, FALSE)
                         /\ UNCHANGED <<conn, disk, last_set, get_pc>>

\* the rest of that get: self.delete(path) and return None
GetEvict ==
  /\ get_pc.path # 0
  /\ conn' = delete_by_path(conn, get_pc.path)
  /\ disk' = commit(conn', disk)
  /\ last_set' = [last_set EXCEPT ![get_pc.path] = <<>>]
  /\ ret' = Return("get", get_pc.path, NoRow, select_by_path(conn, get_pc.path) # {})
  /\ get_pc' = [get_pc EXCEPT !.path = 0, !.cached = <<>>]
  /\ UNCHANGED <<fs, rewritten, ops, engineVars>>

\* HashCache.set
Set(p, size, mtime, sha256, phash, dhash) ==
  /\ Tick
  /\ conn' = insert_or_replace(conn,
               CachedImage(p, size, mtime, sha256, hash_str(phash), hash_str(dhash)))
  /\ disk' = commit(conn', disk)
  /\ ret' = Return("set", p, NoRow, select_by_path(conn, p) # {})
  /\ rewritten' = rewritten \ {p}
  /\ last_set' = [last_set EXCEPT ![p] = <<SetArgs(size, mtime, sha256, phash, dhash)>>]
  /\ UNCHANGED fs

\* set as a caller that has just hashed the file makes it: the file's stat,
\* the exact digest of the file's bytes or None, and the two perceptual
\* digests, which are computed together, or None for both
SetFresh(p) ==
  /\ fs[p].exists
  /\ ImageTable[fs[p].content].decodable
  /\ \E sha256 \in {NoDigest, compute_sha256(fs[p].content)},
        phash \in {<<>>, <<compute_phash(fs[p].content)>>},
        dhash \in {<<>>, <<compute_dhash(fs[p].content)>>} :
       /\ (phash = <<>>) = (dhash = <<>>)
       /\ Set(p, st_size(fs[p].content), fs[p].mtime, sha256, phash, dhash)

\* HashCache.delete
Delete(p) ==
  /\ Tick
  /\ conn' = delete_by_path(conn, p)
  /\ disk' = commit(conn', disk)
  /\ last_set' = [last_set EXCEPT ![p] = <<>>]
  /\ ret' = Return("delete", p, NoRow, select_by_path(conn, p) # {})
  /\ UNCHANGED <<fs, rewritten>>

\* HashCache.clear
Clear ==
  /\ Tick
  /\ conn' = delete_all(conn)
  /\ disk' = commit(conn', disk)
  /\ last_set' = [p \in Paths |-> <<>>]
  /\ ret' = [op |-> "clear", path |-> 0, val |-> NoRow, removed |-> conn # {},
             count |-> Cardinality(conn)]
  /\ UNCHANGED <<fs, rewritten>>

\* the process is killed and a new HashCache is opened on the same file
\* (__init__, _init_db)
Reopen ==
  /\ Tick
  /\ conn' = disk
  /\ ret' = Return("open", 0, NoRow, FALSE)
  /\ UNCHANGED <<fs, disk, rewritten, last_set>>

\* another program writes the file at p
Rewrite(p) ==
  /\ Tick
  /\ \E c \in Contents, m \in Mtimes :
       /\ File(c, m) # fs[p]
       /\ fs' = [fs EXCEPT ![p] = File(c, m)]
  /\ rewritten' = rewritten \cup {p}
  /\ ret' = Return("rewrite", p, NoRow, FALSE)
  /\ UNCHANGED <<conn, disk, last_set>>

\* another program removes the file at p
Unlink(p) ==
  /\ Tick
  /\ fs[p].exists
  /\ fs' = [fs EXCEPT ![p] = NoFile]
  /\ rewritten' = rewritten \cup {p}
  /\ ret' = Return("unlink", p, NoRow, FALSE)
  /\ UNCHANGED <<conn, disk, last_set>>

\* ---- the deduplication engine ---------------------------------------------
ImageInfo(p, size) ==
  [path |-> p, size |-> size, sha256 |-> NoDigest, phash |-> <<>>, dhash |-> <<>>]

DuplicateGroup(imgs, match_type, similarity) ==
  [images |-> imgs, match_type |-> match_type, similarity |-> similarity]

DeduplicationResult ==
  [exact_duplicates |-> <<>>, similar_images |-> <<>>,
   total_images |-> 0, total_size |-> 0, errors |-> <<>>]

\* mutant: the result object of the previous call is used again
kept_result == result

\* result = DeduplicationResult(), the first statement of find_duplicates
new_result == DeduplicationResult

NoArgs ==
  [find_exact |-> FALSE, find_similar |-> FALSE, similarity_threshold |-> 0,
   directories |-> <<>>]
NoCall == [args |-> NoArgs, tree |-> <<>>, result |-> DeduplicationResult]
\* move_duplicates has not run on the result of this call
NoMove == [done |-> FALSE, dry_run |-> FALSE, log |-> <<>>]
\* no get is between its SELECT and its DELETE; stat_failed is history: the
\* paths for which a get found no file to stat
NoGet == [path |-> 0, cached |-> <<>>, stat_failed |-> {}]

\* float("inf") for min_distance; distances are kept doubled, so that the
\* average (phash_dist + dhash_dist) / 2 stays an integer
Infinity == 1000

Min(a, b) == IF a <= b THEN a ELSE b

\* the directories a caller can name: a root, a directory inside it, and a
\* name under which there is nothing
Root == "root"
Sub == "root/sub"
Missing == "missing"
Dirs == {Root, Sub, Missing}
\* directory.exists()
directory_exists(d) == d # Missing
\* the directory a file is in: the first file lies in the root itself, the
\* others in the directory inside it
parent(p) == IF p = 1 THEN Root ELSE Sub
\* directory.glob("**/*") reaches the files in the directory and below it
under(p, d) == d = parent(p) \/ d = Root

\* the files there are, in the order glob yields them
all_paths == [i \in 1..NumPaths |-> i]
\* the path glob yields for file p found from directory: the directory as the
\* caller spelled it, joined with the way down to the file
spelled(directory, p) == [dir |-> directory, file |-> p]
\* path.resolve(): the file itself, however the path to it is spelled
resolve(path) == path.file
\* the resolved paths of a sequence of paths
resolved(paths) == [k \in DOMAIN paths |-> resolve(paths[k])]

scan_directory(directory, f) ==
  LET files == SelectSeq(all_paths, LAMBDA p : f[p].exists /\ under(p, directory))
  IN [k \in DOMAIN files |-> spelled(directory, files[k])]

\* mutant: seen is not consulted
RECURSIVE scan_from_unseen(_, _, _)
scan_from_unseen(directories, f, seen) ==
  IF directories = <<>> THEN <<>>
  ELSE IF ~directory_exists(Head(directories))
       THEN scan_from_unseen(Tail(directories), f, seen)
       ELSE scan_directory(Head(directories), f)
            \o scan_from_unseen(Tail(directories), f, seen)

\* the loop of scan_multiple_directories, seen being the resolved paths
\* yielded so far
RECURSIVE scan_from(_, _, _)
scan_from(directories, f, seen) ==
  IF directories = <<>> THEN <<>>
  ELSE IF ~directory_exists(Head(directories))
       THEN scan_from(Tail(directories), f, seen)
       ELSE LET new == SelectSeq(scan_directory(Head(directories), f),
                                 LAMBDA path : resolve(path) \notin seen)
            IN new \o scan_from(Tail(directories), f,
                                seen \cup {resolve(new[k]) : k \in DOMAIN new})

RECURSIVE until_missing(_)
until_missing(directories) ==
  IF directories = <<>> \/ ~directory_exists(Head(directories)) THEN <<>>
  ELSE <<Head(directories)>> \o until_missing(Tail(directories))

\* mutant: the scan stops at the first directory that does not exist
scan_until_missing(directories, f) == scan_from(until_missing(directories), f, {})

scan_multiple_directories(directories, f) == scan_from(directories, f, {})

\* (path, str(e)), an entry of result.errors
error_entry(p, msg) == [path |-> p, error |-> msg]

\* mutant: the exception is swallowed
errors_swallowed(errors, p, msg) == errors

\* result.errors.append((img.path, str(e)))
errors_append(errors, p, msg) == Append(errors, error_entry(p, msg))

RECURSIVE sum_sizes(_)
sum_sizes(imgs) ==
  IF imgs = <<>> THEN 0 ELSE Head(imgs).size + sum_sizes(Tail(imgs))

\* sorted(sizes, reverse=True)
RECURSIVE insert_desc(_, _)
insert_desc(x, sizes) ==
  IF sizes = <<>> THEN <<x>>
  ELSE IF x >= Head(sizes) THEN <<x>> \o sizes
  ELSE <<Head(sizes)>> \o insert_desc(x, Tail(sizes))

RECURSIVE sorted_desc(_)
sorted_desc(sizes) ==
  IF sizes = <<>> THEN <<>> ELSE insert_desc(Head(sizes), sorted_desc(Tail(sizes)))

RECURSIVE sum(_)
sum(sizes) == IF sizes = <<>> THEN 0 ELSE Head(sizes) + sum(Tail(sizes))

\* DuplicateGroup.total_size
total_size(g) == sum([k \in DOMAIN g.images |-> g.images[k].size])

\* mutant: the sizes are not sorted, the first member is the one kept
potential_savings_unsorted(g) ==
  IF Len(g.images) <= 1 THEN 0
  ELSE sum(Tail([k \in DOMAIN g.images |-> g.images[k].size]))

\* DuplicateGroup.potential_savings
potential_savings(g) ==
  IF Len(g.images) <= 1 THEN 0
  ELSE LET sizes == sorted_desc([k \in DOMAIN g.images |-> g.images[k].size])
       IN sum(Tail(sizes))

\* sha256_groups[key].append(k) on a defaultdict(list), which keeps its keys
\* in insertion order
dict_append(d, key, k) ==
  IF \E i \in DOMAIN d : d[i].key = key
  THEN [i \in DOMAIN d |->
          IF d[i].key = key THEN [d[i] EXCEPT !.members = Append(@, k)] ELSE d[i]]
  ELSE Append(d, [key |-> key, members |-> <<k>>])

\* the list of ImageInfo objects a list of references stands for
deref(refs, imgs) == [i \in DOMAIN refs |-> imgs[refs[i]]]

\* mutant: every bucket becomes a group
RECURSIVE exact_groups_all(_, _)
exact_groups_all(d, imgs) ==
  IF d = <<>> THEN <<>>
  ELSE <<DuplicateGroup(deref(Head(d).members, imgs), "exact", NoDigest)>>
       \o exact_groups_all(Tail(d), imgs)

\* Phase 3: the buckets of more than one image
RECURSIVE exact_groups(_, _)
exact_groups(d, imgs) ==
  IF d = <<>> THEN <<>>
  ELSE (IF Len(Head(d).members) > 1
        THEN <<DuplicateGroup(deref(Head(d).members, imgs), "exact", NoDigest)>>
        ELSE <<>>) \o exact_groups(Tail(d), imgs)

\* mutant: nothing is filtered out
unique_images_all(lst, imgs, seen) == lst

\* Phase 4: "Filter out images that are exact duplicates (keep only one per
\* group)", seen being seen_sha256
RECURSIVE unique_images(_, _, _)
unique_images(lst, imgs, seen) ==
  IF lst = <<>> THEN <<>>
  ELSE IF imgs[Head(lst)].sha256 \in seen
       THEN unique_images(Tail(lst), imgs, seen)
       ELSE <<Head(lst)>> \o
            unique_images(Tail(lst), imgs, seen \cup {imgs[Head(lst)].sha256})

\* mutant: the average is truncated to an integer before it is compared
within_truncated(avg_dist2, threshold) == avg_dist2 \div 2 <= threshold

\* mutant: current and total are passed the other way round
progress_swapped(log, status, current, total) == Append(log, <<status, total, current>>)

\* progress_callback(status, current, total), log being the calls made so far
progress_callback(log, status, current, total) == Append(log, <<status, current, total>>)

\* mutant: Phase 3 begins when the first image has been through Phase 2
next_phase_early(k, n) == "exact"

\* where find_duplicates is when k of n images have been through the loop of
\* Phase 2
next_phase(k, n) == IF k = n THEN "exact" ELSE "hash"

\* mutant: the comparison is strict
within_strict(avg_dist2, threshold) == avg_dist2 < 2 * threshold

\* mutant: the comparison is reversed
within_far(avg_dist2, threshold) == avg_dist2 >= 2 * threshold

\* mutant: the new group is put before the others
groups_prepend(groups, group) == <<group>> \o groups

\* result.similar_images.append(group)
groups_append(groups, group) == Append(groups, group)

\* mutant: nothing is within a threshold outside the documented range
within_valid(avg_dist2, threshold) ==
  threshold \in 0..MaxValidThreshold /\ avg_dist2 <= 2 * threshold

\* avg_dist <= similarity_threshold, avg_dist being avg_dist2 / 2
within(avg_dist2, threshold) == avg_dist2 <= 2 * threshold

\* mutant: the score is rounded up
ceil_distance(min_distance2) == (min_distance2 + 1) \div 2

\* int(min_distance), min_distance being min_distance2 / 2
int_distance(min_distance2) == min_distance2 \div 2

\* Phase 4, inner loop: for j, img2 in enumerate(unique_images[i + 1:], ...)
RECURSIVE inner_loop(_, _, _, _, _, _)
inner_loop(u, imgs, i, j, threshold, acc) ==
  IF j > Len(u) THEN acc
  ELSE IF j \in acc.matched THEN inner_loop(u, imgs, i, j + 1, threshold, acc)
  ELSE LET phash_dist == hash_distance(imgs[u[i]].phash[1], imgs[u[j]].phash[1])
           dhash_dist == hash_distance(imgs[u[i]].dhash[1], imgs[u[j]].dhash[1])
           avg_dist2 == phash_dist + dhash_dist
       IN IF within(avg_dist2, threshold)
          THEN inner_loop(u, imgs, i, j + 1, threshold,
                 [similar_group |-> Append(acc.similar_group, u[j]),
                  matched |-> acc.matched \cup {j},
                  min_distance2 |-> Min(acc.min_distance2, avg_dist2)])
          ELSE inner_loop(u, imgs, i, j + 1, threshold, acc)

\* Phase 4, outer loop: for i, img1 in enumerate(unique_images)
RECURSIVE outer_loop(_, _, _, _, _)
outer_loop(u, imgs, i, threshold, st) ==
  IF i > Len(u) THEN st
  ELSE IF i \in st.matched THEN outer_loop(u, imgs, i + 1, threshold, st)
  ELSE LET r == inner_loop(u, imgs, i, i + 1, threshold,
                  [similar_group |-> <<u[i]>>, matched |-> st.matched,
                   min_distance2 |-> Infinity])
           prog == progress_callback(st.progress, "Finding similar images...", i, Len(u))
       IN IF Len(r.similar_group) > 1
          THEN outer_loop(u, imgs, i + 1, threshold,
                 [matched |-> r.matched \cup {i},
                  groups |-> groups_append(st.groups,
                     DuplicateGroup(deref(r.similar_group, imgs), "similar",
                                    int_distance(r.min_distance2))),
                  progress |-> prog])
          ELSE outer_loop(u, imgs, i + 1, threshold,
                 [matched |-> r.matched, groups |-> st.groups, progress |-> prog])

\* the similar groups and progress reports of Phase 4
similar_images(lst, imgs, threshold) ==
  LET u == unique_images(lst, imgs, {})
  IN outer_loop(u, imgs, 1, threshold,
       [matched |-> {}, groups |-> <<>>,
        progress |-> progress_callback(<<>>, "Finding similar images...", 0, Len(lst))])

\* the calls that scan the root with a threshold in the documented range
ArgSets ==
  [find_exact : BOOLEAN, find_similar : BOOLEAN, similarity_threshold : Thresholds,
   directories : {<<Root>>}]

\* one or two directories, in any order, repeated or not
DirLists == {<<d>> : d \in Dirs} \cup {<<d, e>> : d \in Dirs, e \in Dirs}

\* the calls that name any directories, with a threshold in the documented
\* range or just above it
ArgSetsAny ==
  [find_exact : BOOLEAN, find_similar : BOOLEAN,
   similarity_threshold : {1, MaxValidThreshold + 1},
   directories : DirLists]

\* find_duplicates is called with arguments of argSets: Phase 1.  The path of
\* an image is kept as the file it resolves to.  A file can
\* vanish between the scanner's is_file() and the engine's stat(); at most one
\* file does in a behaviour.  A later call repeats the arguments of the first.
Call(argSets) ==
  /\ pc = "idle"
  /\ run < MaxRuns
  /\ \E a \in {b \in argSets : run = 0 \/ b = args},
        gone \in {{}} \cup {{p} : p \in {q \in Paths : \A r \in Paths : fs[r].exists}} :
       LET found == resolved(scan_multiple_directories(a.directories, fs))
           f2 == [p \in Paths |-> IF p \in gone THEN NoFile ELSE fs[p]]
           ok == SelectSeq(found, LAMBDA p : f2[p].exists)
           failed == SelectSeq(found, LAMBDA p : ~f2[p].exists)
           imgs == [k \in DOMAIN ok |-> ImageInfo(ok[k], st_size(f2[ok[k]].content))]
       IN /\ args' = a
          /\ tree' = fs
          /\ fs' = f2
          /\ rewritten' = rewritten \cup gone
          /\ images' = imgs
          /\ result' = [new_result EXCEPT
                          !.total_size = @ + sum_sizes(imgs),
                          !.total_images = Len(imgs),
                          !.errors = @ \o [k \in DOMAIN failed |->
                                             error_entry(failed[k], "stat")]]
          /\ progress' = progress_callback(<<>>, "Scanning directories...", 0, 0)
          /\ pc' = IF imgs = <<>> THEN "done" ELSE "hash"
  /\ idx' = 0
  /\ sha256_groups' = <<>>
  /\ phash_list' = <<>>
  /\ hasher_calls' = {}
  /\ moves' = NoMove
  /\ UNCHANGED <<conn, disk, ret, last_set, ops, run, prev, get_pc>>

\* find_duplicates over the root
Scan == Call(ArgSets)

\* find_duplicates over any directories
ScanAny == Call(ArgSetsAny)

\* Phase 2, one iteration of "for i, img in enumerate(images)"
HashStep ==
  /\ pc = "hash"
  /\ idx < Len(images)
  /\ LET k == idx + 1
         img == images[k]
         f == fs[img.path]
         can_read == f.exists /\ ImageTable[f.content].readable
         can_decode == can_read /\ ImageTable[f.content].decodable
         sha_done == args.find_exact /\ can_read
         sha_raised == args.find_exact /\ ~can_read
         similar_tried == args.find_similar /\ ~sha_raised
         similar_done == similar_tried /\ can_decode
         img1 == IF sha_done THEN [img EXCEPT !.sha256 = compute_sha256(f.content)]
                 ELSE img
         img2 == IF similar_done
                 THEN [img1 EXCEPT !.phash = <<compute_phash(f.content)>>,
                                   !.dhash = <<compute_dhash(f.content)>>]
                 ELSE img1
     IN /\ progress' = progress_callback(progress, "Computing hashes...", k, Len(images))
        /\ images' = [images EXCEPT ![k] = img2]
        /\ sha256_groups' = IF sha_done
                            THEN dict_append(sha256_groups, img1.sha256, k)
                            ELSE sha256_groups
        /\ phash_list' = IF similar_done THEN Append(phash_list, k) ELSE phash_list
        /\ result' = IF sha_raised
                     THEN [result EXCEPT !.errors = errors_append(@, img.path, "open")]
                     ELSE IF similar_tried /\ ~similar_done
                     THEN [result EXCEPT !.errors = errors_append(@, img.path, "decode")]
                     ELSE result
        /\ hasher_calls' = IF args.find_exact \/ args.find_similar
                           THEN hasher_calls \cup {img.path} ELSE hasher_calls
        /\ idx' = k
        /\ pc' = next_phase(k, Len(images))
  /\ UNCHANGED <<fs, conn, disk, ret, rewritten, last_set, ops, args, run, prev, tree,
                 moves, get_pc>>

\* Phase 3
ExactGrouping ==
  /\ pc = "exact"
  /\ result' = IF args.find_exact
               THEN [result EXCEPT !.exact_duplicates =
                             @ \o exact_groups(sha256_groups, images)]
               ELSE result
  /\ pc' = "similar"
  /\ UNCHANGED <<fs, conn, disk, ret, rewritten, last_set, ops, args, images, idx,
                 sha256_groups, phash_list, progress, hasher_calls, run, prev, tree,
                 moves, get_pc>>

\* Phase 4
SimilarGrouping ==
  /\ pc = "similar"
  /\ IF args.find_similar
     THEN LET s == similar_images(phash_list, images, args.similarity_threshold)
          IN /\ result' = [result EXCEPT !.similar_images = @ \o s.groups]
             /\ progress' = progress \o s.progress
     ELSE UNCHANGED <<result, progress>>
  /\ pc' = "done"
  /\ UNCHANGED <<fs, conn, disk, ret, rewritten, last_set, ops, args, images, idx,
                 sha256_groups, phash_list, hasher_calls, run, prev, tree,
                 moves, get_pc>>

\* return result
ReturnResult ==
  /\ pc = "done"
  /\ pc' = "idle"
  /\ run' = run + 1
  /\ prev' = [args |-> args, tree |-> tree, result |-> result]
  /\ UNCHANGED <<fs, conn, disk, ret, rewritten, last_set, ops, args, images, idx,
                 sha256_groups, phash_list, result, progress, hasher_calls, tree,
                 moves, get_pc>>

\* ---- the command line: print_group and move_duplicates ----------------------
\* all_groups = result.exact_duplicates + result.similar_images
all_groups(res) == res.exact_duplicates \o res.similar_images

\* mutant: an image goes before the images of its own size
RECURSIVE insert_before_equal(_, _)
insert_before_equal(img, sorted) ==
  IF sorted = <<>> THEN <<img>>
  ELSE IF Head(sorted).size > img.size
       THEN <<Head(sorted)>> \o insert_before_equal(img, Tail(sorted))
       ELSE <<img>> \o sorted

\* an image goes after the images of at least its size: sorted() is stable,
\* with reverse=True too
RECURSIVE insert_by_size(_, _)
insert_by_size(img, sorted) ==
  IF sorted = <<>> THEN <<img>>
  ELSE IF Head(sorted).size >= img.size
       THEN <<Head(sorted)>> \o insert_by_size(img, Tail(sorted))
       ELSE <<img>> \o sorted

\* mutant: the sort is not stable
RECURSIVE sorted_images_unstable(_)
sorted_images_unstable(imgs) ==
  IF imgs = <<>> THEN <<>>
  ELSE insert_before_equal(imgs[Len(imgs)],
                           sorted_images_unstable(SubSeq(imgs, 1, Len(imgs) - 1)))

\* sorted(group.images, key=lambda x: x.size, reverse=True)
RECURSIVE sorted_images(_)
sorted_images(imgs) ==
  IF imgs = <<>> THEN <<>>
  ELSE insert_by_size(imgs[Len(imgs)], sorted_images(SubSeq(imgs, 1, Len(imgs) - 1)))

\* the rows print_group adds to its table
print_group(group, index) ==
  LET s == sorted_images(group.images)
  IN [index |-> index,
      rows |-> [i \in DOMAIN s |->
                  [path |-> s[i].path,
                   label |-> IF i = 1 THEN "keep" ELSE "duplicate"]]]

\* move_duplicates: the images of sorted_images[1:], group after group
RECURSIVE to_move(_, _)
to_move(groups, g) ==
  IF g > Len(groups) THEN <<>>
  ELSE LET rest == Tail(sorted_images(groups[g].images))
       IN [k \in DOMAIN rest |-> [group |-> g, path |-> rest[k].path]]
          \o to_move(groups, g + 1)

\* move_duplicates: the body of the inner loop, for each selected image.
\* shutil.move raises when the file is no longer at img.path
RECURSIVE move_all(_, _, _, _)
move_all(sel, f, dry_run, log) ==
  IF sel = <<>> THEN [fs |-> f, log |-> log]
  ELSE LET m == Head(sel)
           moved == ~dry_run /\ f[m.path].exists
       IN move_all(Tail(sel),
                   IF moved THEN [f EXCEPT ![m.path] = NoFile] ELSE f,
                   dry_run,
                   Append(log, [group |-> m.group, path |-> m.path, moved |-> moved,
                                error |-> ~dry_run /\ ~moved]))

\* run_scan calls move_duplicates on the result find_duplicates returned
MoveDuplicates(dry_run) ==
  /\ pc = "idle"
  /\ run > 0
  /\ ~moves.done
  /\ all_groups(result) # <<>>
  /\ LET r == move_all(to_move(all_groups(result), 1), fs, dry_run, <<>>)
     IN /\ fs' = r.fs
        /\ moves' = [done |-> TRUE, dry_run |-> dry_run, log |-> r.log]
        /\ rewritten' = rewritten \cup {p \in Paths : fs[p] # r.fs[p]}
  /\ UNCHANGED <<conn, disk, ret, last_set, ops, pc, args, images, idx, sha256_groups,
                 phash_list, result, progress, hasher_calls, run, prev, tree, get_pc>>

\* ---- specifications --------------------------------------------------------
EngineIdle ==
  /\ pc = "idle"
  /\ args = NoArgs
  /\ images = <<>>
  /\ idx = 0
  /\ sha256_groups = <<>>
  /\ phash_list = <<>>
  /\ result = DeduplicationResult
  /\ progress = <<>>
  /\ hasher_calls = {}
  /\ run = 0
  /\ prev = NoCall
  /\ tree = <<>>
  /\ moves = NoMove
  /\ get_pc = NoGet

\* the arguments of the set that stored all three digests of the file at p
full_set(f, p) ==
  SetArgs(st_size(f[p].content), f[p].mtime, compute_sha256(f[p].content),
          <<compute_phash(f[p].content)>>, <<compute_dhash(f[p].content)>>)

\* HashCache opened on the cache file an earlier process left with the row of
\* the last path; every path holds a file
Init ==
  /\ fs = [p \in Paths |-> File(((p - 1) % NumContents) + 1, 0)]
  /\ last_set = [p \in Paths |-> IF p = NumPaths THEN <<full_set(fs, p)>> ELSE <<>>]
  /\ conn = {row_of(p, last_set[p][1]) : p \in {q \in Paths : last_set[q] # <<>>}}
  /\ disk = conn
  /\ ret = Return("open", 0, NoRow, FALSE)
  /\ rewritten = {}
  /\ ops = 0
  /\ EngineIdle

Next ==
  \/ \E p \in Keys : Get(p)
  \/ \E p \in Keys : SetFresh(p)
  \/ \E p \in Keys : Delete(p)
  \/ Clear
  \/ Reopen
  \/ \E p \in Keys : Rewrite(p)
  \/ \E p \in Keys : Unlink(p)

Spec == Init /\ [][Next]_vars

\* find_duplicates over a tree of image files, the cache file having been
\* left by a process that stored the digests of every decodable file
InitEngine ==
  /\ fs \in [Paths -> {File(c, 0) : c \in Images}]
  /\ last_set = [p \in Paths |->
                   IF ImageTable[fs[p].content].decodable
                   THEN <<full_set(fs, p)>> ELSE <<>>]
  /\ conn = {row_of(p, last_set[p][1]) : p \in {q \in Paths : last_set[q] # <<>>}}
  /\ disk = conn
  /\ ret = Return("open", 0, NoRow, FALSE)
  /\ rewritten = {}
  /\ ops = 0
  /\ EngineIdle

NextEngine ==
  \/ Scan
  \/ HashStep
  \/ ExactGrouping
  \/ SimilarGrouping
  \/ ReturnResult

SpecEngine == InitEngine /\ [][NextEngine]_vars

\* two callers, each with a HashCache of its own on the same cache file, at
\* work on the path whose row the file holds: one makes gets, the other sets,
\* while the file is written and removed
NextConcurrent ==
  \/ GetRead(NumPaths)
  \/ GetEvict
  \/ SetFresh(NumPaths)
  \/ Rewrite(NumPaths)
  \/ Unlink(NumPaths)

SpecConcurrent == Init /\ [][NextConcurrent]_vars

\* find_duplicates over any of the directories of a tree of three images
NextScan ==
  \/ ScanAny
  \/ HashStep
  \/ ExactGrouping
  \/ SimilarGrouping
  \/ ReturnResult

SpecScan == Init /\ [][NextScan]_vars

\* find_duplicates with both kinds of matching, and move_duplicates on its
\* result
ArgSetsBoth ==
  [find_exact : {TRUE}, find_similar : {TRUE}, similarity_threshold : Thresholds,
   directories : {<<Root>>}]

ScanBoth == Call(ArgSetsBoth)

NextMove ==
  \/ ScanBoth
  \/ HashStep
  \/ ExactGrouping
  \/ SimilarGrouping
  \/ ReturnResult
  \/ \E dry_run \in BOOLEAN : MoveDuplicates(dry_run)

SpecMove == InitEngine /\ [][NextMove]_vars

\* the contents that decode to a picture
Decodable == {c \in DOMAIN ImageTable : ImageTable[c].decodable}

\* the ImageInfo of a file of content c once Phase 2 has computed its digests
hashed_image(p, c) ==
  [path |-> p, size |-> st_size(c), sha256 |-> compute_sha256(c),
   phash |-> <<compute_phash(c)>>, dhash |-> <<compute_dhash(c)>>]

\* sha256_groups after the first k images have been through Phase 2
RECURSIVE buckets(_, _)
buckets(imgs, k) ==
  IF k = 0 THEN <<>> ELSE dict_append(buckets(imgs, k - 1), imgs[k].sha256, k)

\* a call with both kinds of matching over two to MaxCandidates decodable
\* files in the root, none of which vanished, as it stands when Phase 3 is
\* over
InitGroup ==
  \E n \in 2..MaxCandidates :
    \E cs \in [1..n -> Decodable], t \in Thresholds :
      /\ fs = [p \in 1..n |-> File(cs[p], 0)]
      /\ tree = fs
      /\ conn = {}
      /\ disk = {}
      /\ ret = Return("open", 0, NoRow, FALSE)
      /\ rewritten = {}
      /\ last_set = [p \in Paths |-> <<>>]
      /\ ops = 0
      /\ pc = "similar"
      /\ args = [find_exact |-> TRUE, find_similar |-> TRUE,
                 similarity_threshold |-> t, directories |-> <<Root>>]
      /\ images = [p \in 1..n |-> hashed_image(p, cs[p])]
      /\ idx = n
      /\ sha256_groups = buckets(images, n)
      /\ phash_list = [k \in 1..n |-> k]
      /\ result = [new_result EXCEPT
                      !.total_images = n,
                      !.total_size = sum_sizes(images),
                      !.exact_duplicates = exact_groups(sha256_groups, images)]
      /\ progress = <<<<"Scanning directories...", 0, 0>>>>
                      \o [k \in 1..n |-> <<"Computing hashes...", k, n>>]
      /\ hasher_calls = 1..n
      /\ run = 0
      /\ prev = NoCall
      /\ moves = NoMove
      /\ get_pc = NoGet

NextGroup ==
  \/ SimilarGrouping
  \/ ReturnResult

SpecGroup == InitGroup /\ [][NextGroup]_vars

\* ---- properties of HashCache (Spec) -----------------------------------------
\* the row get returned, when it returned one
GetHit == ret.op = "get" /\ ret.val # NoRow

\* the digests of row r are digests of content c (each one may be None)
digests_of(r, c) ==
  /\ r.sha256 \in {NoDigest, compute_sha256(c)}
  /\ r.phash \in {NoDigest, hash_str(<<compute_phash(c)>>)}
  /\ r.dhash \in {NoDigest, hash_str(<<compute_dhash(c)>>)}

\* row r agrees with the stat of the file at p
matches_stat(r, p) ==
  /\ fs[p].exists
  /\ r.size = st_size(fs[p].content)
  /\ Abs(r.mtime - fs[p].mtime) <= Tolerance

\* the table a history of sets, deletes, clears and evictions should leave
expected_rows ==
  {CachedImage(p, last_set[p][1].size, last_set[p][1].mtime, last_set[p][1].sha256,
               hash_str(last_set[p][1].phash), hash_str(last_set[p][1].dhash)) :
     p \in {q \in Paths : last_set[q] # <<>>}}

\* C1 as stated: every digest get(path) returns is the digest of the content
\* the file at path has at the time of the get.
C1_DigestsAreCurrent ==
  GetHit => digests_of(ret.val[1], fs[ret.path].content)

\* C1 as amended: a row get(path) returns has the file's current size and an
\* mtime within 1 ms of the file's, and its digests are those of the current
\* content unless the file was written again after the set (a rewrite that
\* keeps the size and stays within 1 ms of the stored mtime is not detected).
C1_DigestsCurrentUnlessRewritten ==
  GetHit =>
    /\ matches_stat(ret.val[1], ret.path)
    /\ \/ digests_of(ret.val[1], fs[ret.path].content)
       \/ ret.path \in rewritten

\* a hit on a file that was written again after the set, with current digests
C1_Witness ==
  /\ GetHit
  /\ ret.path \in rewritten
  /\ ret.val[1].sha256 = compute_sha256(fs[ret.path].content)

\* C2: get(path) returns the stored row if the file can be stat'ed, the stored
\* size equals the current size and the stored mtime is within 0.001 s of the
\* current mtime; in every other case it returns absent.
C2_GetValidates ==
  [][ret'.op = "get" =>
       LET p == ret'.path
           valid == {r \in conn : r.path = p /\ matches_stat(r, p)}
       IN IF valid = {} THEN ret'.val = NoRow
          ELSE ret'.val \in {<<r>> : r \in valid}]_vars

\* a hit whose stored mtime is off by exactly the tolerance
C2_Witness ==
  /\ GetHit
  /\ Abs(ret.val[1].mtime - fs[ret.path].mtime) = Tolerance

\* C3: a get(path) that finds a row not matching the live file's size or mtime
\* removes that row from the store, leaves the rows of every other path as they
\* were, and while no set(path) is made the path has no row and get(path)
\* returns absent.
C3_StaleRowEvicted ==
  [][\A p \in Paths :
       /\ (/\ ret'.op = "get" /\ ret'.path = p
           /\ fs[p].exists
           /\ \E r \in conn : r.path = p /\ ~matches_stat(r, p))
          => /\ {r \in conn' : r.path = p} = {}
             /\ {r \in disk' : r.path = p} = {}
             /\ {r \in conn' : r.path # p} = {r \in conn : r.path # p}
             /\ {r \in disk' : r.path # p} = {r \in disk : r.path # p}
       /\ (/\ {r \in conn : r.path = p} = {}
           /\ ~(ret'.op = "set" /\ ret'.path = p))
          => /\ {r \in conn' : r.path = p} = {}
             /\ (ret'.op = "get" /\ ret'.path = p) => ret'.val = NoRow]_vars

\* get has just evicted a stale row while another path keeps its row
C3_Witness ==
  /\ ret.op = "get" /\ ret.removed
  /\ ret.val = NoRow
  /\ \E r \in conn : r.path # ret.path

\* C4: set followed by get on a file that was not written in between, with no
\* other change to the path's row, returns the size, the mtime and the three
\* digests given to set; a digest absent in set is absent in the result.
C4_RoundTrip ==
  (/\ ret.op = "get"
   /\ last_set[ret.path] # <<>>
   /\ ret.path \notin rewritten)
  => /\ ret.val # NoRow
     /\ LET a == last_set[ret.path][1]
            r == ret.val[1]
        IN /\ r.path = ret.path
           /\ r.size = a.size
           /\ r.mtime = a.mtime
           /\ r.sha256 = a.sha256
           /\ IF a.phash = <<>> THEN r.phash = NoDigest
              ELSE r.phash # NoDigest /\ phash_from_str(r.phash) = a.phash[1]
           /\ IF a.dhash = <<>> THEN r.dhash = NoDigest
              ELSE r.dhash # NoDigest /\ phash_from_str(r.dhash) = a.dhash[1]

\* a round trip of a set that gave the two perceptual digests and no exact one
C4_Witness ==
  /\ GetHit
  /\ ret.path \notin rewritten
  /\ last_set[ret.path] # <<>>
  /\ last_set[ret.path][1].sha256 = NoDigest
  /\ last_set[ret.path][1].phash # <<>>
  /\ last_set[ret.path][1].dhash # <<>>
  /\ last_set[ret.path][1].phash # last_set[ret.path][1].dhash

\* C5: the store holds at most one row per path, and the rows it holds are
\* those of the most recent set of each path that no delete, clear or eviction
\* has removed since.
C5_UpsertByPath ==
  /\ \A p \in Paths : Cardinality({r \in conn : r.path = p}) <= 1
  /\ conn = expected_rows

\* a set has just replaced the row an earlier set stored for the path
C5_Witness ==
  /\ ret.op = "set" /\ ret.removed
  /\ Cardinality(conn) > 1

\* C6 as stated: a set that gives only the perceptual digests of an unchanged
\* file leaves the exact digest stored for the path in place, and a set that
\* gives only the exact digest leaves the stored perceptual digests in place.
C6_PartialSetPreserves ==
  [][\A p \in Paths :
       (/\ ret'.op = "set" /\ ret'.path = p
        /\ p \notin rewritten)
       => \A old \in {r \in conn : r.path = p} :
            \A new \in {r \in conn' : r.path = p} :
              LET a == last_set'[p][1]
              IN /\ (a.sha256 = NoDigest /\ old.sha256 # NoDigest)
                      => new.sha256 = old.sha256
                 /\ (a.phash = <<>> /\ a.dhash = <<>>)
                      => (new.phash = old.phash /\ new.dhash = old.dhash)]_vars

\* C7: whenever an operation has returned, the cache file holds the rows of
\* every set that no later delete, clear or eviction removed, so a process
\* killed at that point finds them again.
C7_Durable ==
  disk = expected_rows

\* the cache was opened again after a kill and still holds a stored row
C7_Witness ==
  /\ ret.op = "open"
  /\ ops > 0
  /\ conn # {}
  /\ conn = disk

\* ---- properties of find_duplicates (SpecEngine) ------------------------------
\* the cache holds a row for p that get would return
valid_entry(p) == \E r \in conn : r.path = p /\ matches_stat(r, p)

\* how many members of the groups of res have path p
RECURSIVE occurrences(_, _)
occurrences(groups, p) ==
  IF groups = <<>> THEN 0
  ELSE Cardinality({i \in DOMAIN Head(groups).images : Head(groups).images[i].path = p})
       + occurrences(Tail(groups), p)

\* the files are as they were when the previous call and this call began
TreeUnchanged == prev.tree = tree /\ tree = fs

\* C8 as stated: in the hashing phase a file with a valid cache entry is not
\* handed to the Hasher, and a file without one is hashed and, when hashing
\* succeeds, its digests are stored with HashCache.set.
C8_CacheConsulted ==
  [][idx' = idx + 1 =>
       LET p == images[idx'].path
       IN IF valid_entry(p)
          THEN p \notin hasher_calls'
          ELSE (args.find_exact \/ args.find_similar)
               => /\ p \in hasher_calls'
                  /\ Len(result'.errors) = Len(result.errors)
                       => \E r \in conn' : r.path = p]_vars

C10_OneGroupPerPath ==
  pc = "done" => \A p \in Paths : occurrences(all_groups(result), p) <= 1


\* ---- properties of the grouping (SpecEngine) -------------------------------
\* the members of a group, as a set of ImageInfo objects
members(g) == {g.images[k] : k \in DOMAIN g.images}
\* Phase 3 is over
Grouped == pc \in {"similar", "done"}
\* the digest of the bytes of the file an image of the call stands for
true_digest(img) == compute_sha256(fs[img.path].content)

\* C11: with find_exact, the exact groups are the digest buckets of two or
\* more files: a group has at least two members, which are distinct files
\* with one computed digest; no two groups have the same digest; and two
\* files with the same computed digest are together in a group
C11_ExactGroupsAreBuckets ==
  (Grouped /\ args.find_exact) =>
    LET G == result.exact_duplicates
    IN /\ \A g \in DOMAIN G :
            /\ Len(G[g].images) >= 2
            /\ G[g].match_type = "exact"
            /\ members(G[g]) \subseteq {images[k] : k \in DOMAIN images}
            /\ Cardinality({G[g].images[k].path : k \in DOMAIN G[g].images})
                 = Len(G[g].images)
            /\ \A m \in members(G[g]) :
                 /\ m.sha256 # NoDigest
                 /\ m.sha256 = true_digest(m)
                 /\ m.sha256 = G[g].images[1].sha256
       /\ \A g, h \in DOMAIN G :
            g # h => G[g].images[1].sha256 # G[h].images[1].sha256
       /\ \A i, j \in DOMAIN images :
            (i # j /\ images[i].sha256 # NoDigest
                   /\ images[i].sha256 = images[j].sha256)
              => \E g \in DOMAIN G : {images[i], images[j]} \subseteq members(G[g])

\* a call with find_exact has grouped two files of one digest and left a
\* file of another digest out
C11_Witness ==
  /\ pc = "done"
  /\ args.find_exact
  /\ Len(result.exact_duplicates) = 1
  /\ \E k \in DOMAIN images :
       /\ images[k].sha256 # NoDigest
       /\ images[k] \notin members(result.exact_duplicates[1])


\* the place of an image in scan order
pos(img) == CHOOSE k \in DOMAIN images : images[k].path = img.path
\* twice the combined distance of two perceptually hashed images
dist2(a, b) ==
  hash_distance(a.phash[1], b.phash[1]) + hash_distance(a.dhash[1], b.dhash[1])
\* the images Phase 4 compares
candidates ==
  LET u == unique_images(phash_list, images, {})
  IN {images[u[k]] : k \in DOMAIN u}
\* the images in the similar groups before the g-th
matched_before(g) ==
  UNION {members(result.similar_images[h]) : h \in 1..(g - 1)}

\* C12: a similar group is a star around its first member, the anchor: every
\* other member is a candidate later than the anchor in scan order, in no
\* earlier group, whose phash and dhash distances to the anchor sum to at
\* most twice the threshold; and every such candidate is a member, whatever
\* its distance to the other members
C12_StarAroundAnchor ==
  (pc = "done" /\ args.find_similar) =>
    LET S == result.similar_images
    IN \A g \in DOMAIN S :
         LET anchor == S[g].images[1]
             star == {c \in candidates \ matched_before(g) :
                        /\ pos(c) > pos(anchor)
                        /\ dist2(anchor, c) <= 2 * args.similarity_threshold}
         IN /\ S[g].match_type = "similar"
            /\ anchor \in candidates \ matched_before(g)
            /\ {S[g].images[k] : k \in 2..Len(S[g].images)} = star
            /\ \A k, l \in DOMAIN S[g].images :
                 k < l => pos(S[g].images[k]) < pos(S[g].images[l])

\* a similar group holds two members that are farther from each other than
\* the threshold
C12_Witness ==
  /\ pc = "done"
  /\ \E g \in DOMAIN result.similar_images :
       \E k, l \in 2..Len(result.similar_images[g].images) :
         dist2(result.similar_images[g].images[k], result.similar_images[g].images[l])
           > 2 * args.similarity_threshold

\* a similar group holds a member whose combined distance to the anchor is
\* the threshold itself
C12_AtThreshold ==
  /\ pc = "done"
  /\ \E g \in DOMAIN result.similar_images :
       \E k \in 2..Len(result.similar_images[g].images) :
         dist2(result.similar_images[g].images[1], result.similar_images[g].images[k])
           = 2 * args.similarity_threshold


\* twice the least combined distance between the anchor of a group and its
\* other members
min_dist2(g) ==
  LET D == {dist2(g.images[1], g.images[k]) : k \in 2..Len(g.images)}
  IN CHOOSE x \in D : \A y \in D : x <= y

\* C13, as the specification states it: the similarity score of a similar
\* group is the least combined distance (the mean of the two Hamming
\* distances) between its anchor and its other members
C13_ScoreIsMinimum ==
  pc = "done" =>
    \A g \in DOMAIN result.similar_images :
      2 * result.similar_images[g].similarity = min_dist2(result.similar_images[g])

\* C13: the similarity score of a similar group is the least combined
\* distance between its anchor and its other members, truncated to an integer
C13_ScoreIsTruncatedMinimum ==
  pc = "done" =>
    \A g \in DOMAIN result.similar_images :
      result.similar_images[g].similarity
        = min_dist2(result.similar_images[g]) \div 2

\* a similar group whose least combined distance is not an integer
C13_Witness ==
  /\ pc = "done"
  /\ \E g \in DOMAIN result.similar_images :
       /\ min_dist2(result.similar_images[g]) % 2 = 1
       /\ Len(result.similar_images[g].images) > 2


\* C14: the candidates of Phase 4 are one file per exact digest: no two
\* candidates, and so no two members of a similar group, are files of the
\* same bytes; and when exact digests are computed, the candidate of a digest
\* is the first perceptually hashed file with that digest in scan order
C14_OneCandidatePerDigest ==
  (Grouped /\ args.find_similar) =>
    LET u == unique_images(phash_list, images, {})
    IN /\ \A k, l \in DOMAIN u :
            k # l => true_digest(images[u[k]]) # true_digest(images[u[l]])
       /\ args.find_exact =>
            \A i \in DOMAIN phash_list :
              \E k \in DOMAIN u :
                /\ images[u[k]].sha256 = images[phash_list[i]].sha256
                /\ u[k] <= phash_list[i]
                /\ \A j \in DOMAIN phash_list :
                     images[phash_list[j]].sha256 = images[u[k]].sha256
                       => u[k] <= phash_list[j]
       /\ \A g \in DOMAIN result.similar_images :
            \A m, n \in members(result.similar_images[g]) :
              m # n => true_digest(m) # true_digest(n)

\* two perceptually hashed files have the same digest, and the first of them
\* is in a similar group with a file of other bytes
C14_Witness ==
  /\ pc = "done"
  /\ args.find_exact
  /\ \E i, j \in DOMAIN phash_list :
       /\ i < j
       /\ images[phash_list[i]].sha256 = images[phash_list[j]].sha256
       /\ \E g \in DOMAIN result.similar_images :
            /\ images[phash_list[i]] \in members(result.similar_images[g])
            /\ images[phash_list[j]] \notin members(result.similar_images[g])


\* C15, as the specification states it: with find_exact disabled and
\* find_similar enabled, a perceptually hashed file within the threshold of
\* the first perceptually hashed file, which no earlier anchor can have
\* taken, is in one similar group with it
C15_SimilarOnlyGroups ==
  (pc = "done" /\ ~args.find_exact /\ args.find_similar) =>
    \A j \in 2..Len(phash_list) :
      dist2(images[phash_list[1]], images[phash_list[j]])
          <= 2 * args.similarity_threshold
        => \E g \in DOMAIN result.similar_images :
             {images[phash_list[1]], images[phash_list[j]]}
               \subseteq members(result.similar_images[g])

\* the paths of the files whose hashing or decoding failed
hash_failures ==
  {result.errors[k].path :
     k \in {e \in DOMAIN result.errors : result.errors[e].error # "stat"}}
\* the paths in the groups of the result
grouped_paths ==
  LET G == all_groups(result)
  IN UNION {{G[g].images[k].path : k \in DOMAIN G[g].images} : g \in DOMAIN G}

\* C16, as the specification states it: a file whose hashing or decoding
\* failed is in the error list and in no exact or similar group, and is
\* counted in total_images and total_size
C16_FailedFileOnlyInErrors ==
  pc = "done" =>
    /\ hash_failures \cap grouped_paths = {}
    /\ hash_failures \subseteq {images[k].path : k \in DOMAIN images}
    /\ result.total_images = Len(images)
    /\ result.total_size = sum_sizes(images)


\* Phase 2 is over
Hashed == pc \in {"exact", "similar", "done"}
\* the paths the scanner yielded to this call
yielded ==
  LET found == resolved(scan_multiple_directories(args.directories, tree))
  IN {found[k] : k \in DOMAIN found}
\* the yielded paths whose stat failed: the file had vanished
stat_failed == {p \in yielded : ~fs[p].exists}
\* the paths of the images of this call
image_paths == {images[k].path : k \in DOMAIN images}
\* a Hasher function raises on this image under the arguments of this call
raises(img) ==
  LET c == fs[img.path].content
  IN \/ args.find_exact /\ ~ImageTable[c].readable
     \/ args.find_similar /\ ~ImageTable[c].decodable
\* the number of entries of result.errors for path p
entries(p) == Cardinality({k \in DOMAIN result.errors : result.errors[k].path = p})

\* C17: no per-file error stops the call.  A path whose stat failed has one
\* entry in errors and is not among the images, the totals, the hashed files
\* or the groups; an image whose hashing raised has one entry in errors; no
\* other file has an entry; and every image has been through the hashing loop
C17_NoFileErrorIsFatal ==
  Hashed =>
    /\ \A p \in stat_failed :
         /\ entries(p) = 1
         /\ p \notin image_paths \cup hasher_calls \cup grouped_paths
    /\ image_paths = yielded \ stat_failed
    /\ result.total_images = Len(images)
    /\ result.total_size = sum_sizes(images)
    /\ \A k \in DOMAIN images :
         entries(images[k].path) = IF raises(images[k]) THEN 1 ELSE 0
    /\ \A k \in DOMAIN result.errors : result.errors[k].path \in yielded
    /\ idx = Len(images)
    /\ (args.find_exact \/ args.find_similar) => hasher_calls = image_paths

\* a call has ended in which the stat of one file failed, the hashing of
\* another raised, and a file after that one was hashed
C17_Witness ==
  /\ pc = "done"
  /\ stat_failed # {}
  /\ \E k, l \in DOMAIN images :
       /\ k < l
       /\ raises(images[k])
       /\ ~raises(images[l])
       /\ images[l].phash # <<>>


\* ---- properties of the call (SpecScan) --------------------------------------
\* a directory given to this call does not exist
missing_given == \E k \in DOMAIN args.directories : ~directory_exists(args.directories[k])
\* the files that were, when the call began, in or below a directory given to
\* it that exists
files_given ==
  {p \in Paths :
     /\ tree[p].exists
     /\ \E k \in DOMAIN args.directories :
          directory_exists(args.directories[k]) /\ under(p, args.directories[k])}

\* C18, as the specification states it: a call that was given a missing
\* directory ends in a fatal error, so it returns no result
C18_MissingRootIsFatal ==
  [][(pc = "done" /\ pc' = "idle") => ~missing_given]_vars

\* C18: a missing directory is passed over.  The call scans the files of the
\* directories that exist, wherever the missing one stands in the list, and
\* records nothing about it: every entry of errors is for a file
C18_MissingRootSkipped ==
  pc # "idle" =>
    /\ image_paths \cup stat_failed = files_given
    /\ \A k \in DOMAIN result.errors : result.errors[k].path \in files_given

\* a call given a missing directory and then one that exists has ended with
\* the files of the second
C18_Witness ==
  /\ pc = "done"
  /\ Len(args.directories) = 2
  /\ ~directory_exists(args.directories[1])
  /\ images # <<>>
  /\ result.errors = <<>>


largest(g) ==
  CHOOSE x \in {g.images[k].size : k \in DOMAIN g.images} :
    \A k \in DOMAIN g.images : g.images[k].size <= x
\* the group of the first n members of g
first_members(g, n) == [g EXCEPT !.images = SubSeq(@, 1, n)]

\* C20: potential_savings of a group is its total_size less the size of one
\* largest member, and 0 for a group of fewer than two members; checked for
\* the groups of a result and for the groups of their first members
C20_SavingsKeepLargest ==
  pc = "done" =>
    LET G == all_groups(result)
    IN \A g \in DOMAIN G :
         \A n \in 0..Len(G[g].images) :
           LET h == first_members(G[g], n)
           IN potential_savings(h)
                = IF n < 2 THEN 0 ELSE total_size(h) - largest(h)

\* a result holds a group whose first member is smaller than another member
\* and a group in which two members tie for largest
C20_Witness ==
  /\ pc = "done"
  /\ \E g \in DOMAIN all_groups(result) :
       all_groups(result)[g].images[1].size < largest(all_groups(result)[g])
  /\ \E g \in DOMAIN all_groups(result) :
       \E k, l \in DOMAIN all_groups(result)[g].images :
         /\ k # l
         /\ all_groups(result)[g].images[k].size = largest(all_groups(result)[g])
         /\ all_groups(result)[g].images[l].size = largest(all_groups(result)[g])


\* ---- properties of the command line (SpecMove) ------------------------------
\* the member of a group to keep: of the largest size and, among those, the
\* first in scan order
keeper(g) ==
  CHOOSE m \in members(g) :
    /\ m.size = largest(g)
    /\ \A n \in members(g) : n.size = largest(g) => pos(m) <= pos(n)
\* the paths move_duplicates selected on account of the g-th group
selected(g) ==
  {moves.log[k].path : k \in {l \in DOMAIN moves.log : moves.log[l].group = g}}

\* C21: in every group of a result, print_group labels as the one to keep the
\* largest member, the first in scan order among the largest, and no other;
\* and move_duplicates selects for moving, once each, the other members
C21_KeeperIsFirstLargest ==
  \A g \in DOMAIN all_groups(result) :
    LET G == all_groups(result)[g]
        rows == print_group(G, g).rows
    IN /\ {i \in DOMAIN rows : rows[i].label = "keep"} = {1}
       /\ rows[1].path = keeper(G).path
       /\ {rows[i].path : i \in DOMAIN rows} = {m.path : m \in members(G)}
       /\ moves.done =>
            /\ selected(g) = {m.path : m \in members(G)} \ {keeper(G).path}
            /\ Cardinality({l \in DOMAIN moves.log : moves.log[l].group = g})
                 = Len(G.images) - 1

\* move_duplicates has run on a result with a group in which two members tie
\* for largest and a group whose first member is not its largest
C21_Witness ==
  /\ moves.done
  /\ ~moves.dry_run
  /\ \E g \in DOMAIN all_groups(result) :
       all_groups(result)[g].images[1].size < largest(all_groups(result)[g])
  /\ \E g \in DOMAIN all_groups(result) :
       /\ all_groups(result)[g].images[1].size = all_groups(result)[g].images[2].size
       /\ all_groups(result)[g].images[1].size = largest(all_groups(result)[g])

\* C30, as the specification states it: after move_duplicates has run without
\* dry_run and without a move error, every group of the result still has a
\* member at its original path
C30_GroupKeepsAMember ==
  (moves.done /\ ~moves.dry_run
              /\ \A k \in DOMAIN moves.log : ~moves.log[k].error) =>
    \A g \in DOMAIN all_groups(result) :
      \E m \in members(all_groups(result)[g]) : fs[m.path].exists


\* ---- properties of the scanner (SpecScan) -----------------------------------
\* the place in the list of the first directory given to this call that exists
\* and holds file p
first_holding(p) ==
  CHOOSE k \in DOMAIN args.directories :
    /\ directory_exists(args.directories[k]) /\ under(p, args.directories[k])
    /\ \A l \in 1..(k - 1) :
         ~(directory_exists(args.directories[l]) /\ under(p, args.directories[l]))

\* C22: scan_multiple_directories yields every file in or below the
\* directories given exactly once: no two yielded paths resolve to the same
\* file, and the path yielded for a file is the one of the first directory in
\* the list that holds the file
C22_YieldedOnce ==
  pc # "idle" =>
    LET y == scan_multiple_directories(args.directories, tree)
    IN /\ \A i, j \in DOMAIN y : i # j => resolve(y[i]) # resolve(y[j])
       /\ {resolve(y[i]) : i \in DOMAIN y} = files_given
       /\ \A i \in DOMAIN y :
            y[i].dir = args.directories[first_holding(resolve(y[i]))]
       /\ \A i, j \in DOMAIN y :
            i < j => first_holding(resolve(y[i])) <= first_holding(resolve(y[j]))
       /\ Len(images) + Cardinality(stat_failed) = Len(y)

\* a call was given a directory and then the directory it lies in, or one
\* directory twice, and the scanner yielded a file from each of two directories
C22_Witness ==
  /\ pc # "idle"
  /\ Len(args.directories) = 2
  /\ \/ args.directories[1] = args.directories[2]
     \/ under(NumPaths, args.directories[1])
  /\ LET y == scan_multiple_directories(args.directories, tree)
     IN \E i, j \in DOMAIN y : y[i].dir = Sub /\ y[j].dir = Root


\* ---- properties of the similarity grouping (SpecGroup) -----------------------
\* the images in the similar groups of a sequence of groups
grouped(groups) == UNION {members(groups[g]) : g \in DOMAIN groups}
\* Phase 4 run on the hashed images of this call with threshold t
regrouped(t) == similar_images(phash_list, images, t).groups

\* C23: the similar groups are fixed by the scan order, the digests and the
\* threshold.  A group lists its earliest scanned member, the anchor, first
\* and its other members in scan order; the groups come in the order of
\* their anchors' places in the scan; and running the grouping again on the
\* same images with the same threshold gives the same groups in the same
\* order
C23_GroupsFollowScanOrder ==
  pc \in {"done", "idle"} =>
    LET S == result.similar_images
    IN /\ \A g \in DOMAIN S :
            \A k, l \in DOMAIN S[g].images :
              k < l => pos(S[g].images[k]) < pos(S[g].images[l])
       /\ \A g, h \in DOMAIN S :
            g < h => pos(S[g].images[1]) < pos(S[h].images[1])
       /\ S = regrouped(args.similarity_threshold)

\* a result holds two similar groups, the first of which has a member scanned
\* after the anchor of the second
C23_Witness ==
  /\ pc = "done"
  /\ Len(result.similar_images) = 2
  /\ \E k \in DOMAIN result.similar_images[1].images :
       pos(result.similar_images[1].images[k]) > pos(result.similar_images[2].images[1])


\* C28: after the similarity grouping, two candidates that are both in no
\* similar group are farther from each other than the threshold
C28_NoMatchablePairLeft ==
  pc = "done" =>
    \A a, b \in candidates \ grouped(result.similar_images) :
      a # b => dist2(a, b) > 2 * args.similarity_threshold

\* the grouping has ended with a group and with two candidates left in no
\* group
C28_Witness ==
  /\ pc = "done"
  /\ result.similar_images # <<>>
  /\ \E a, b \in candidates \ grouped(result.similar_images) : a # b

\* the files in the similar groups of a sequence of groups
grouped_files(groups) == {m.path : m \in grouped(groups)}
\* the group of a sequence of groups whose anchor is the first candidate
first_group(groups) ==
  {g \in DOMAIN groups : groups[g].images[1] = images[phash_list[1]]}

\* C29, as the specification states it: a file that is in a similar group at
\* the threshold of the call is in a similar group at every higher threshold
C29_MembershipMonotone ==
  pc = "done" =>
    \A t \in Thresholds :
      t >= args.similarity_threshold =>
        grouped_files(result.similar_images) \subseteq grouped_files(regrouped(t))

\* C29: a pair within the threshold is within every higher threshold, and the
\* group of the first candidate in scan order, which is compared with every
\* other candidate, keeps its members at every higher threshold; the members
\* of the other groups need not stay grouped
C29_FirstGroupMonotone ==
  pc = "done" =>
    \A t \in Thresholds :
      t >= args.similarity_threshold =>
        \A g \in first_group(result.similar_images) :
          \E h \in first_group(regrouped(t)) :
            members(result.similar_images[g]) \subseteq members(regrouped(t)[h])

\* the first candidate has a group at the threshold of the call, and a larger
\* one at a higher threshold, at which a file of another group of the call is
\* in no group
C29_Witness ==
  /\ pc = "done"
  /\ first_group(result.similar_images) # {}
  /\ \E t \in Thresholds :
       /\ t > args.similarity_threshold
       /\ \E g \in first_group(result.similar_images), h \in first_group(regrouped(t)) :
            members(result.similar_images[g]) # members(regrouped(t)[h])
       /\ ~(grouped_files(result.similar_images) \subseteq grouped_files(regrouped(t)))


\* ---- properties of the phases and of the progress reports (SpecEngine) ------
\* the reports of one phase of this call, in the order they were made
reports(status) == SelectSeq(progress, LAMBDA r : r[1] = status)

\* C24: the phases do not overlap.  While an image is still to be hashed the
\* result holds no group and no comparison has been reported; Phase 3 and
\* Phase 4 run only when every image has been through Phase 2; and every
\* "Computing hashes..." report comes before every "Finding similar
\* images..." report
C24_PhaseBarrier ==
  /\ pc = "hash" =>
       /\ idx < Len(images)
       /\ all_groups(result) = <<>>
       /\ reports("Finding similar images...") = <<>>
  /\ pc \in {"exact", "similar", "done"} => idx = Len(images)
  /\ (all_groups(result) # <<>> /\ pc # "idle") => idx = Len(images)
  /\ \A i, j \in DOMAIN progress :
       (progress[i][1] = "Computing hashes..."
          /\ progress[j][1] = "Finding similar images...") => i < j

\* a call has ended with an exact group and a similar group, after hashing
\* three images and comparing them
C24_Witness ==
  /\ pc = "done"
  /\ Len(images) = NumPaths
  /\ result.exact_duplicates # <<>>
  /\ result.similar_images # <<>>
  /\ Len(reports("Finding similar images...")) > 1

\* C25: in each phase of a call the completed counts reported do not
\* decrease and none exceeds the total reported with it; and the hashing
\* phase has reported once for each image hashed so far, with the counts 1, 2,
\* ... in scan order and the number of images as the total
C25_ProgressMonotone ==
  /\ \A status \in {"Scanning directories...", "Computing hashes...",
                    "Finding similar images..."} :
       LET s == reports(status)
       IN \A i \in DOMAIN s :
            /\ s[i][2] <= s[i][3]
            /\ i < Len(s) => s[i][2] <= s[i + 1][2]
  /\ pc # "idle" =>
       /\ reports("Computing hashes...")
            = [k \in 1..idx |-> <<"Computing hashes...", k, Len(images)>>]
       /\ Hashed => Len(reports("Computing hashes...")) = Len(images)

\* a call has ended in which every image was hashed and the similarity phase
\* passed over an anchor that was already matched
C25_Witness ==
  /\ pc = "done"
  /\ Len(images) = NumPaths
  /\ LET s == reports("Finding similar images...")
     IN \E i \in DOMAIN s : i < Len(s) /\ s[i + 1][2] > s[i][2] + 1


\* ---- properties of HashCache beside other callers (SpecConcurrent) ----------
\* C26, as the specification states it: the eviction of a get removes only
\* the row that get read, never a row that a set stored after the read
C26_EvictionSparesLaterSet ==
  [][(get_pc.path # 0 /\ get_pc'.path = 0)
       => select_by_path(conn, get_pc.path) \subseteq {get_pc.cached[1]}]_vars

\* a get returns in this step, not having had to evict
GetReturns == get_pc.path = 0 /\ get_pc'.path = 0 /\ ops' = ops /\ ret'.op = "get"

\* C27: a get on a path that cannot be stat'ed returns absent and leaves the
\* table and the cache file as they are; and a get on a path for which an
\* earlier get failed so returns the stored row once the file is there with
\* the stored size and an mtime within the tolerance
C27_StatFailureLeavesStore ==
  [][/\ (GetReturns /\ ~fs[ret'.path].exists) =>
          /\ ret'.val = NoRow
          /\ ~ret'.removed
          /\ conn' = conn
          /\ disk' = disk
     /\ (GetReturns /\ fs[ret'.path].exists /\ ret'.path \in get_pc.stat_failed) =>
          \A r \in select_by_path(conn, ret'.path) :
            matches_stat(r, ret'.path) => ret'.val = <<r>> /\ conn' = conn]_vars

\* a get has returned the row of a path for which an earlier get found no
\* file, no set having been made since the file was removed
C27_Witness ==
  /\ GetHit
  /\ ret.path \in get_pc.stat_failed
  /\ ret.path \in rewritten
  /\ last_set[ret.path] # <<>>
  /\ ret.val[1] = row_of(ret.path, last_set[ret.path][1])

====
